---- MODULE Spec2Model ----
(***************************************************************************)
(* Model of src/lib/phoneNumber.ts: the phone-number parser.               *)
(*                                                                         *)
(* A JavaScript string is a sequence of one-character strings.  Every      *)
(* function of the file is an operator that computes what the code         *)
(* computes; the state machine lets a caller build a raw input string and  *)
(* hand it to parsePhoneNumber.                                            *)
(***************************************************************************)
EXTENDS Integers, Sequences, FiniteSets, TLC

VARIABLES input, pc, result

vars == <<input, pc, result>>

(***************************************************************************)
(* Bounds of the model.                                                    *)
(***************************************************************************)
\* longest raw input the caller builds
MaxLen == 16
\* most characters of a raw input that are not the filler digit
MaxMarks == 2

\* the digit every unmarked position of an input holds
Filler == "5"
\* the characters a marked position may hold: digits of the other classes
\* (0 and 1: invalid area/exchange start; 1 and 7: one-digit country code),
\* the two characters the cleaning keeps, in both cases, and one it strips
Marks == {"0", "1", "7", "+", "x", "X", "-"}

(***************************************************************************)
(* String helpers (JavaScript semantics).                                  *)
(***************************************************************************)
Digits == {"0", "1", "2", "3", "4", "5", "6", "7", "8", "9"}

\* the character class \d
IsDigit(c) == c \in Digits

\* the characters /[^\d+x+]/gi does not remove
IsKept(c) == IsDigit(c) \/ c \in {"+", "x", "X"}

\* input.replace(/[^\d+x+]/gi, '')
Clean(s) == SelectSeq(s, IsKept)

\* StripNonDigits written with the class of the cleaning, which keeps '+'
StripNonDigits_keepsPlus(s) == SelectSeq(s, LAMBDA c : IsDigit(c) \/ c = "+")

\* s.replace(/\D/g, '')
StripNonDigits(s) == SelectSeq(s, IsDigit)

\* s.toLowerCase(), on the characters a cleaned string can hold
ToLowerCase(s) == [i \in 1..Len(s) |-> IF s[i] = "X" THEN "x" ELSE s[i]]

\* s.startsWith(c)
StartsWith(s, c) == Len(s) > 0 /\ s[1] = c

\* s.includes(c)
Includes(s, c) == \E i \in 1..Len(s) : s[i] = c

\* s.slice(from, to), 0-based and half-open, clamped to the string
Slice(s, from, to) == SubSeq(s, from + 1, IF to < Len(s) THEN to ELSE Len(s))

\* s.slice(from)
SliceFrom(s, from) == SubSeq(s, from + 1, Len(s))

\* s.split(sep): every occurrence of sep separates two elements
RECURSIVE Split(_, _)
Split(s, sep) ==
    IF ~Includes(s, sep)
    THEN <<s>>
    ELSE LET i == CHOOSE k \in 1..Len(s) :
                      s[k] = sep /\ \A j \in 1..(k - 1) : s[j] # sep
         IN  <<SubSeq(s, 1, i - 1)>> \o Split(SubSeq(s, i + 1, Len(s)), sep)

\* the i-th name of an array destructuring: undefined past the end
Element(parts, i) ==
    IF i <= Len(parts)
    THEN [defined |-> TRUE, value |-> parts[i]]
    ELSE [defined |-> FALSE]

\* !v for v a string or undefined
Falsy(v) == ~v.defined \/ v.value = <<>>

\* chunks.join(sep)
RECURSIVE Join(_, _)
Join(chunks, sep) ==
    IF Len(chunks) = 0 THEN <<>>
    ELSE IF Len(chunks) = 1 THEN chunks[1]
    ELSE chunks[1] \o sep \o Join(Tail(chunks), sep)

(***************************************************************************)
(* PhoneNumberParseResult.                                                 *)
(***************************************************************************)
Success(phoneNumber) == [success |-> TRUE, phoneNumber |-> phoneNumber]

Failure(error) == [success |-> FALSE, error |-> error]

(***************************************************************************)
(* formatInternationalNumber                                               *)
(***************************************************************************)
\* the chunks the loop pushes from index i on
RECURSIVE Chunks(_, _)
Chunks(nationalNumber, i) ==
    IF i < Len(nationalNumber)
    THEN <<Slice(nationalNumber, i, i + 4)>> \o Chunks(nationalNumber, i + 4)
    ELSE <<>>

formatInternationalNumber(countryCode, nationalNumber) ==
    IF Len(nationalNumber) <= 10
    THEN <<"+">> \o countryCode \o <<" ">> \o nationalNumber
    ELSE <<"+">> \o countryCode \o <<" ">> \o Join(Chunks(nationalNumber, 0), <<" ">>)

(***************************************************************************)
(* parseInternationalNumber                                                *)
(***************************************************************************)
\* countryCodeLength with the test for a leading 7 left out
countryCodeLength_without7(digits) ==
    IF StartsWith(digits, "1") THEN 1
    ELSE IF StartsWith(digits, "8") THEN 1
    ELSE IF StartsWith(digits, "9") THEN 1
    ELSE 2

countryCodeLength(digits) ==
    IF StartsWith(digits, "1") THEN 1
    ELSE IF StartsWith(digits, "7") THEN 1
    ELSE IF StartsWith(digits, "8") THEN 1
    ELSE IF StartsWith(digits, "9") THEN 1
    ELSE 2

\* parseInternationalNumber with a digit-count message outside the taxonomy
parseInternationalNumber_otherMessage(s) ==
    LET digits == StripNonDigits(s)
        countryCode == Slice(digits, 0, countryCodeLength(digits))
        nationalNumber == SliceFrom(digits, countryCodeLength(digits))
    IN  IF Len(digits) < 8 \/ Len(digits) > 15
        THEN Failure("International phone number must be 8-14 digits")
        ELSE IF Len(nationalNumber) < 7
        THEN Failure("National number too short after country code")
        ELSE Success([countryCode |-> <<"+">> \o countryCode,
                      nationalNumber |-> nationalNumber,
                      formatted |-> formatInternationalNumber(countryCode, nationalNumber)])

parseInternationalNumber(s) ==
    LET digits == StripNonDigits(s)
        countryCode == Slice(digits, 0, countryCodeLength(digits))
        nationalNumber == SliceFrom(digits, countryCodeLength(digits))
    IN  IF Len(digits) < 8 \/ Len(digits) > 15
        THEN Failure("International phone number must be 8-15 digits")
        ELSE IF Len(nationalNumber) < 7
        THEN Failure("National number too short after country code")
        ELSE Success([countryCode |-> <<"+">> \o countryCode,
                      nationalNumber |-> nationalNumber,
                      formatted |-> formatInternationalNumber(countryCode, nationalNumber)])

(***************************************************************************)
(* parseUSNumber                                                           *)
(***************************************************************************)
\* parseUSNumber with the exchange code taken one digit too far right
parseUSNumber_exchangeShifted(s) ==
    LET digits == StripNonDigits(s)
        areaCode == Slice(digits, 0, 3)
        exchangeCode == Slice(digits, 4, 7)
        subscriberNumber == SliceFrom(digits, 6)
    IN  IF Len(digits) # 10
        THEN Failure("US/Canada phone number must be exactly 10 digits")
        ELSE IF StartsWith(areaCode, "0") \/ StartsWith(areaCode, "1")
        THEN Failure("Invalid area code")
        ELSE IF StartsWith(exchangeCode, "0") \/ StartsWith(exchangeCode, "1")
        THEN Failure("Invalid exchange code")
        ELSE Success([countryCode |-> <<"+", "1">>,
                      nationalNumber |-> digits,
                      formatted |-> <<"(">> \o areaCode \o <<")", " ">> \o exchangeCode
                                    \o <<"-">> \o subscriberNumber])

parseUSNumber(s) ==
    LET digits == StripNonDigits(s)
        areaCode == Slice(digits, 0, 3)
        exchangeCode == Slice(digits, 3, 6)
        subscriberNumber == SliceFrom(digits, 6)
    IN  IF Len(digits) # 10
        THEN Failure("US/Canada phone number must be exactly 10 digits")
        ELSE IF StartsWith(areaCode, "0") \/ StartsWith(areaCode, "1")
        THEN Failure("Invalid area code")
        ELSE IF StartsWith(exchangeCode, "0") \/ StartsWith(exchangeCode, "1")
        THEN Failure("Invalid exchange code")
        ELSE Success([countryCode |-> <<"+", "1">>,
                      nationalNumber |-> digits,
                      formatted |-> <<"(">> \o areaCode \o <<")", " ">> \o exchangeCode
                                    \o <<"-">> \o subscriberNumber])

(***************************************************************************)
(* parseNumberWithExtension and parsePhoneNumber call each other.          *)
(***************************************************************************)
RECURSIVE parsePhoneNumber(_)

\* { ...phoneNumber, extension, formatted }
WithExtension(phoneNumber, extension) ==
    [f \in DOMAIN phoneNumber \cup {"extension"} |->
        IF f = "extension" THEN extension
        ELSE IF f = "formatted"
             THEN phoneNumber.formatted \o <<" ", "e", "x", "t", ".", " ">> \o extension
             ELSE phoneNumber[f]]

\* parseNumberWithExtension with the main number validated in place as a
\* US/Canada number instead of parsed again from the top
parseNumberWithExtension_inlined(s) ==
    LET parts == Split(ToLowerCase(s), "x")
        numberPart == Element(parts, 1)
        extensionPart == Element(parts, 2)
    IN  IF Falsy(extensionPart) \/ Falsy(numberPart)
        THEN Failure("Invalid extension format")
        ELSE LET digits == StripNonDigits(numberPart.value)
                 extension == StripNonDigits(extensionPart.value)
             IN  IF Len(digits) < 7 \/ Len(digits) > 15
                 THEN Failure("Phone number must be 7-15 digits")
                 ELSE IF Len(extension) = 0 \/ Len(extension) > 5
                 THEN Failure("Extension must be 1-5 digits")
                 ELSE LET mainNumberResult == parseUSNumber(digits)
                      IN  IF ~mainNumberResult.success
                          THEN mainNumberResult
                          ELSE Success(WithExtension(mainNumberResult.phoneNumber,
                                                     extension))

parseNumberWithExtension(s) ==
    LET parts == Split(ToLowerCase(s), "x")
        numberPart == Element(parts, 1)
        extensionPart == Element(parts, 2)
    IN  IF Falsy(extensionPart) \/ Falsy(numberPart)
        THEN Failure("Invalid extension format")
        ELSE LET digits == StripNonDigits(numberPart.value)
                 extension == StripNonDigits(extensionPart.value)
             IN  IF Len(digits) < 7 \/ Len(digits) > 15
                 THEN Failure("Phone number must be 7-15 digits")
                 ELSE IF Len(extension) = 0 \/ Len(extension) > 5
                 THEN Failure("Extension must be 1-5 digits")
                 ELSE LET mainNumberResult == parsePhoneNumber(numberPart.value)
                      IN  IF ~mainNumberResult.success
                          THEN mainNumberResult
                          ELSE Success(WithExtension(mainNumberResult.phoneNumber,
                                                     extension))

\* Route with the upper limit off by one
Route_inclusiveLimit(cleaned) ==
    IF cleaned = <<>> \/ Len(cleaned) < 7 THEN "tooShort"
    ELSE IF Len(cleaned) >= 15 THEN "tooLong"
    ELSE IF StartsWith(cleaned, "+") THEN "international"
    ELSE IF Includes(ToLowerCase(cleaned), "x") THEN "extension"
    ELSE IF Len(cleaned) = 10 THEN "us10"
    ELSE IF Len(cleaned) = 11 /\ StartsWith(cleaned, "1") THEN "us11"
    ELSE "none"

\* Route with the upper limit counting digits only
Route_digitLimit(cleaned) ==
    IF cleaned = <<>> \/ Len(cleaned) < 7 THEN "tooShort"
    ELSE IF Len(StripNonDigits(cleaned)) > 15 THEN "tooLong"
    ELSE IF StartsWith(cleaned, "+") THEN "international"
    ELSE IF Includes(ToLowerCase(cleaned), "x") THEN "extension"
    ELSE IF Len(cleaned) = 10 THEN "us10"
    ELSE IF Len(cleaned) = 11 /\ StartsWith(cleaned, "1") THEN "us11"
    ELSE "none"

\* Route with the test for 'x' made before the test for a leading '+'
Route_extensionFirst(cleaned) ==
    IF cleaned = <<>> \/ Len(cleaned) < 7 THEN "tooShort"
    ELSE IF Len(cleaned) > 15 THEN "tooLong"
    ELSE IF Includes(ToLowerCase(cleaned), "x") THEN "extension"
    ELSE IF StartsWith(cleaned, "+") THEN "international"
    ELSE IF Len(cleaned) = 10 THEN "us10"
    ELSE IF Len(cleaned) = 11 /\ StartsWith(cleaned, "1") THEN "us11"
    ELSE "none"

\* parsePhoneNumber, the if-chain after the cleaning: the first test that holds
Route(cleaned) ==
    IF cleaned = <<>> \/ Len(cleaned) < 7 THEN "tooShort"
    ELSE IF Len(cleaned) > 15 THEN "tooLong"
    ELSE IF StartsWith(cleaned, "+") THEN "international"
    ELSE IF Includes(ToLowerCase(cleaned), "x") THEN "extension"
    ELSE IF Len(cleaned) = 10 THEN "us10"
    ELSE IF Len(cleaned) = 11 /\ StartsWith(cleaned, "1") THEN "us11"
    ELSE "none"

\* parsePhoneNumber with the leading 1 of an 11-digit number not removed
parsePhoneNumber_keepsLeadingOne(s) ==
    LET cleaned == Clean(s)
        route == Route(cleaned)
    IN  CASE route = "tooShort" ->
               Failure("Phone number must be at least 7 digits long")
          [] route = "tooLong" ->
               Failure("Phone number cannot exceed 15 digits")
          [] route = "international" -> parseInternationalNumber(cleaned)
          [] route = "extension" -> parseNumberWithExtension(cleaned)
          [] route = "us10" -> parseUSNumber(cleaned)
          [] route = "us11" -> parseUSNumber(cleaned)
          [] OTHER -> Failure("Unable to parse phone number format")

parsePhoneNumber(s) ==
    LET cleaned == Clean(s)
        route == Route(cleaned)
    IN  CASE route = "tooShort" ->
               Failure("Phone number must be at least 7 digits long")
          [] route = "tooLong" ->
               Failure("Phone number cannot exceed 15 digits")
          [] route = "international" -> parseInternationalNumber(cleaned)
          [] route = "extension" -> parseNumberWithExtension(cleaned)
          [] route = "us10" -> parseUSNumber(cleaned)
          [] route = "us11" -> parseUSNumber(SliceFrom(cleaned, 1))
          [] OTHER -> Failure("Unable to parse phone number format")

(***************************************************************************)
(* The state machine: a caller builds a raw string and parses it.          *)
(***************************************************************************)
NoResult == [success |-> FALSE, error |-> "(not parsed)"]

NumMarks(s) == Cardinality({i \in 1..Len(s) : s[i] # Filler})

Init ==
    /\ input = <<>>
    /\ pc = "input"
    /\ result = NoResult

\* the caller extends the raw string by one character
Type(c) ==
    /\ pc = "input"
    /\ Len(input) < MaxLen
    /\ c = Filler \/ NumMarks(input) < MaxMarks
    /\ input' = Append(input, c)
    /\ UNCHANGED <<pc, result>>

\* the caller calls parsePhoneNumber(input)
Parse ==
    /\ pc = "input"
    /\ result' = parsePhoneNumber(input)
    /\ pc' = "done"
    /\ UNCHANGED input

Next ==
    \/ \E c \in Marks \cup {Filler} : Type(c)
    \/ Parse

Spec == Init /\ [][Next]_vars

(***************************************************************************)
(* Vocabulary of the properties.                                           *)
(***************************************************************************)
Done == pc = "done"

\* the cleaned input of the call
cleanedInput == Clean(input)

AllDigits(s) == \A i \in 1..Len(s) : s[i] \in Digits

\* how many characters of s the cleaning keeps
KeptCount(s) ==
    Cardinality({i \in 1..Len(s) : s[i] \in Digits \cup {"+", "x", "X"}})

HasX(s) == \E i \in 1..Len(s) : s[i] \in {"x", "X"}

HasExtension(r) == r.success /\ "extension" \in DOMAIN r.phoneNumber

\* the literal messages of the error taxonomy
ErrorTaxonomy ==
    { "Phone number must be at least 7 digits long",
      "Phone number cannot exceed 15 digits",
      "Unable to parse phone number format",
      "International phone number must be 8-15 digits",
      "National number too short after country code",
      "Invalid extension format",
      "Phone number must be 7-15 digits",
      "Extension must be 1-5 digits",
      "US/Canada phone number must be exactly 10 digits",
      "Invalid area code",
      "Invalid exchange code" }

(***************************************************************************)
(* C1: an input whose cleaned string is exactly ten digits D1..D10 fails   *)
(* with "Invalid area code" if D1 is 0 or 1, else with "Invalid exchange   *)
(* code" if D4 is 0 or 1, and else succeeds with countryCode "+1", the ten *)
(* digits as nationalNumber, no extension, and formatted                   *)
(* "(D1D2D3) D4D5D6-D7D8D9D10".                                            *)
(***************************************************************************)
C1_TenDigits ==
    (Done /\ Len(cleanedInput) = 10 /\ AllDigits(cleanedInput)) =>
        LET d == cleanedInput
        IN  result =
              IF d[1] \in {"0", "1"} THEN Failure("Invalid area code")
              ELSE IF d[4] \in {"0", "1"} THEN Failure("Invalid exchange code")
              ELSE Success([countryCode |-> <<"+", "1">>,
                            nationalNumber |-> d,
                            formatted |-> <<"(", d[1], d[2], d[3], ")", " ",
                                            d[4], d[5], d[6], "-",
                                            d[7], d[8], d[9], d[10]>>])

\* a ten-digit number typed with a separator parses successfully
C1_Witness ==
    /\ Done
    /\ Len(input) > 10
    /\ Len(cleanedInput) = 10
    /\ AllDigits(cleanedInput)
    /\ result.success

(***************************************************************************)
(* C2: the length guard looks at the whole cleaned string ('+' and 'x'     *)
(* counted): fewer than 7 characters give "Phone number must be at least 7 *)
(* digits long", more than 15 give "Phone number cannot exceed 15 digits", *)
(* and neither failure is returned for a cleaned length of 7..15.          *)
(***************************************************************************)
C2_LengthGuard ==
    Done =>
        LET n == KeptCount(input)
        IN  /\ n < 7 => result = Failure("Phone number must be at least 7 digits long")
            /\ n > 15 => result = Failure("Phone number cannot exceed 15 digits")
            /\ n \in 7..15 =>
                 result \notin { Failure("Phone number must be at least 7 digits long"),
                                 Failure("Phone number cannot exceed 15 digits") }

\* fifteen digits and a '+': too long only because the '+' is counted
C2_Witness ==
    /\ Done
    /\ KeptCount(input) = 16
    /\ Len(StripNonDigits(input)) = 15
    /\ result = Failure("Phone number cannot exceed 15 digits")

(***************************************************************************)
(* C3: every Success has a nationalNumber of ASCII digits only, a          *)
(* countryCode that is '+' followed by at least one digit, and, when it    *)
(* has an extension, one of 1 to 5 ASCII digits.                           *)
(***************************************************************************)
C3_SuccessShape ==
    (Done /\ result.success) =>
        LET p == result.phoneNumber
        IN  /\ AllDigits(p.nationalNumber)
            /\ Len(p.countryCode) >= 2
            /\ p.countryCode[1] = "+"
            /\ AllDigits(Tail(p.countryCode))
            /\ "extension" \in DOMAIN p =>
                 /\ AllDigits(p.extension)
                 /\ Len(p.extension) \in 1..5

\* a success with an extension, from an input that had a '+' after the 'x'
C3_Witness ==
    /\ Done
    /\ HasExtension(result)
    /\ \E i \in 1..Len(input) : input[i] = "+"

(***************************************************************************)
(* The two sides of the extension split, as parseNumberWithExtension       *)
(* names them: numberPart is what precedes the first 'x', extensionPart    *)
(* what lies between the first 'x' and the next one (or the end).          *)
(***************************************************************************)
XPositions(s) == {i \in 1..Len(s) : s[i] \in {"x", "X"}}

FirstX(s) == CHOOSE i \in XPositions(s) : \A j \in XPositions(s) : i <= j

\* the position of the second 'x', or one past the end
NextX(s) ==
    LET later == XPositions(s) \ {FirstX(s)}
    IN  IF later = {} THEN Len(s) + 1
        ELSE CHOOSE i \in later : \A j \in later : i <= j

NumberPartOf(s) == SubSeq(s, 1, FirstX(s) - 1)

ExtensionPartOf(s) == SubSeq(s, FirstX(s) + 1, NextX(s) - 1)

\* everything after the first 'x'
AfterFirstX(s) == SubSeq(s, FirstX(s) + 1, Len(s))

DigitsOf(s) == SelectSeq(s, LAMBDA c : c \in Digits)

\* the call went down the extension route
OnExtensionRoute ==
    /\ Done
    /\ Len(cleanedInput) \in 7..15
    /\ cleanedInput[1] # "+"
    /\ HasX(cleanedInput)

ExtensionErrors ==
    { "Invalid extension format",
      "Phone number must be 7-15 digits",
      "Extension must be 1-5 digits" }

(***************************************************************************)
(* C4: on the extension route, when numberPart has 7 to 15 digits and the  *)
(* extension has 1 to 5 digits, the result is decided by the top-level     *)
(* parse of numberPart: its Failure is returned as it is (never an         *)
(* extension-specific message); its Success is returned with the same      *)
(* countryCode and nationalNumber, the extension attached, and formatted   *)
(* followed by " ext. " and the extension.                                 *)
(***************************************************************************)
C4_ExtensionDelegates ==
    OnExtensionRoute =>
        LET numberPart == NumberPartOf(cleanedInput)
            extension == DigitsOf(ExtensionPartOf(cleanedInput))
            main == parsePhoneNumber(numberPart)
        IN  (Len(DigitsOf(numberPart)) \in 7..15 /\ Len(extension) \in 1..5) =>
               IF ~main.success
               THEN /\ result = main
                    /\ result.error \notin ExtensionErrors
               ELSE result =
                      Success([countryCode |-> main.phoneNumber.countryCode,
                               nationalNumber |-> main.phoneNumber.nationalNumber,
                               extension |-> extension,
                               formatted |-> main.phoneNumber.formatted
                                             \o <<" ", "e", "x", "t", ".", " ">>
                                             \o extension])

\* an eleven-digit main number with an extension parses successfully
C4_Witness ==
    /\ OnExtensionRoute
    /\ Len(NumberPartOf(cleanedInput)) = 11
    /\ HasExtension(result)

(***************************************************************************)
(* C5: for a string d of exactly ten digits, parsePhoneNumber("1" + d)     *)
(* returns what parsePhoneNumber(d) returns; every other 11-character      *)
(* cleaned string without '+' or 'x' fails with "Unable to parse phone     *)
(* number format".                                                         *)
(***************************************************************************)
C5_LeadingOne ==
    /\ (Done /\ Len(input) = 11 /\ AllDigits(input) /\ input[1] = "1") =>
          result = parsePhoneNumber(Tail(input))
    /\ (Done /\ Len(cleanedInput) = 11 /\ AllDigits(cleanedInput)
             /\ cleanedInput[1] # "1") =>
          result = Failure("Unable to parse phone number format")

\* "1" followed by a valid ten-digit number parses successfully
C5_Witness ==
    /\ Done
    /\ Len(input) = 11
    /\ AllDigits(input)
    /\ input[1] = "1"
    /\ result.success
    /\ result.phoneNumber.nationalNumber = Tail(input)

(***************************************************************************)
(* C6: every call returns exactly one of the two variants: a Success with  *)
(* a phone number, or a Failure whose error is one of the eleven messages  *)
(* of the error taxonomy.                                                  *)
(***************************************************************************)
C6_ResultShape ==
    Done =>
        \/ /\ DOMAIN result = {"success", "phoneNumber"}
           /\ result.success = TRUE
           /\ {"countryCode", "nationalNumber", "formatted"}
                 \subseteq DOMAIN result.phoneNumber
        \/ /\ DOMAIN result = {"success", "error"}
           /\ result.success = FALSE
           /\ result.error \in ErrorTaxonomy

\* the US/Canada length failure, reached through a '+' that is not leading
C6_Witness ==
    /\ Done
    /\ result = Failure("US/Canada phone number must be exactly 10 digits")

(***************************************************************************)
(* C7: on the extension route the lower-cased cleaned string is split at   *)
(* its first 'x' only: numberPart is everything before it and              *)
(* extensionPart everything after it, later 'x' included.  "Invalid        *)
(* extension format" is returned exactly when one of the two sides is      *)
(* empty; otherwise the extension that is length-checked and returned is   *)
(* all the digits of extensionPart.                                        *)
(***************************************************************************)
C7_SplitAtFirstX ==
    OnExtensionRoute =>
        LET numberPart == NumberPartOf(cleanedInput)
            extensionPart == AfterFirstX(cleanedInput)
            digits == DigitsOf(numberPart)
            extension == DigitsOf(extensionPart)
        IN  /\ result = Failure("Invalid extension format")
                 <=> (numberPart = <<>> \/ extensionPart = <<>>)
            /\ (numberPart # <<>> /\ extensionPart # <<>> /\ Len(digits) \in 7..15) =>
                 /\ result = Failure("Extension must be 1-5 digits")
                      <=> (Len(extension) = 0 \/ Len(extension) > 5)
                 /\ HasExtension(result) => result.phoneNumber.extension = extension

(***************************************************************************)
(* C8: for a cleaned string that starts with '+', has at most 15           *)
(* characters and at least 8 digits: the country code is the first digit   *)
(* when the digits start with 1, 7, 8 or 9 and the first two digits        *)
(* otherwise; the result is "National number too short after country code" *)
(* iff fewer than 7 digits remain; otherwise it is a Success with          *)
(* countryCode '+' and the country code, nationalNumber the remaining      *)
(* digits, and formatted "+<cc> <nationalNumber>" when nationalNumber has  *)
(* at most 10 digits, else "+<cc> " and nationalNumber in groups of 4      *)
(* joined by single spaces.  formatted without its spaces is countryCode   *)
(* followed by nationalNumber.                                             *)
(***************************************************************************)
\* n left to right in groups of four separated by one space
GroupsOfFour(n) ==
    [i \in 1..(Len(n) + (Len(n) - 1) \div 4) |->
        IF i % 5 = 0 THEN " " ELSE n[i - (i \div 5)]]

WithoutSpaces(s) == SelectSeq(s, LAMBDA c : c # " ")

C9_ExtensionOnlyUS ==
    /\ (Done /\ HasExtension(result)) =>
          LET p == result.phoneNumber
          IN  /\ p.countryCode = <<"+", "1">>
              /\ Len(p.nationalNumber) = 10
              /\ p.nationalNumber[1] \notin {"0", "1"}
              /\ p.nationalNumber[4] \notin {"0", "1"}
              /\ cleanedInput[1] # "+"
    /\ OnExtensionRoute =>
          LET numberPart == NumberPartOf(cleanedInput)
          IN  /\ ~StartsWith(numberPart, "+")
              /\ ~HasX(numberPart)
              /\ Route(Clean(numberPart)) \notin {"international", "extension"}
              /\ (/\ Len(DigitsOf(numberPart)) \in 7..15
                  /\ Len(DigitsOf(ExtensionPartOf(cleanedInput))) \in 1..5) =>
                    Route(Clean(numberPart)) \in {"us10", "us11", "none"}
              /\ HasExtension(result) => Route(Clean(numberPart)) \in {"us10", "us11"}
    /\ (Done /\ result.success /\ StartsWith(cleanedInput, "+")) =>
          /\ ~HasExtension(result)
          /\ Tail(result.phoneNumber.countryCode) \o result.phoneNumber.nationalNumber
               = DigitsOf(cleanedInput)

\* '+' first and an 'x' inside: an international Success, the 'x' dropped
C9_Witness ==
    /\ Done
    /\ StartsWith(cleanedInput, "+")
    /\ HasX(cleanedInput)
    /\ result.success
    /\ DigitsOf(AfterFirstX(cleanedInput)) # <<>>

(***************************************************************************)
(* C10 as stated: no Success has more than 14 digits in countryCode and    *)
(* nationalNumber together; '+' followed by exactly 15 digits is rejected  *)
(* with "Phone number cannot exceed 15 digits"; the international route    *)
(* only ever sees 6 to 14 digits; "International phone number must be 8-15 *)
(* digits" is returned only for fewer than 8 digits.                       *)
(***************************************************************************)
OnInternationalRoute ==
    /\ Done
    /\ Len(cleanedInput) \in 7..15
    /\ cleanedInput[1] = "+"

SuccessDigits(r) ==
    Len(DigitsOf(r.phoneNumber.countryCode)) + Len(r.phoneNumber.nationalNumber)

C10_Original ==
    /\ (Done /\ result.success) => SuccessDigits(result) <= 14
    /\ (Done /\ Len(input) = 16 /\ input[1] = "+" /\ AllDigits(Tail(input))) =>
          result = Failure("Phone number cannot exceed 15 digits")
    /\ OnInternationalRoute => Len(DigitsOf(cleanedInput)) \in 6..14
    /\ (Done /\ result = Failure("International phone number must be 8-15 digits")) =>
          Len(DigitsOf(cleanedInput)) < 8

(***************************************************************************)
(* C10 amended: as above, but the international route sees at most 14      *)
(* digits and possibly fewer than 6: the cleaned string has 7 to 15        *)
(* characters and starts with '+', and its other characters may be '+' or  *)
(* 'x' as well as digits.                                                  *)
(***************************************************************************)
C10_AtMost14Digits ==
    /\ (Done /\ result.success) => SuccessDigits(result) <= 14
    /\ (Done /\ Len(input) = 16 /\ input[1] = "+" /\ AllDigits(Tail(input))) =>
          result = Failure("Phone number cannot exceed 15 digits")
    /\ OnInternationalRoute => Len(DigitsOf(cleanedInput)) \in 0..14
    /\ (Done /\ result = Failure("International phone number must be 8-15 digits")) =>
          /\ OnInternationalRoute
          /\ Len(DigitsOf(cleanedInput)) < 8

\* the international route with fewer than 6 digits
C10_Witness ==
    /\ OnInternationalRoute
    /\ Len(DigitsOf(cleanedInput)) < 6
    /\ result = Failure("International phone number must be 8-15 digits")

====
